---- MODULE Spec2Model ----
(***************************************************************************)
(* Model of the Purdue basketball calendar refresh: the refresh driver     *)
(* scripts/purdue_refresh_from_web.py (lock, load, fetch, merge, stable    *)
(* ids, diff, save, calendar sync, run log, release), the CI driver        *)
(* scripts/update_schedule.py (load, fetch, merge, stable ids, diff, save) *)
(* and the calendar helper scripts/gcal.py.                                *)
(*                                                                         *)
(* Python dicts are mutable objects: the merge keeps references to the     *)
(* dicts of games_old, so each run has a heap of game objects and its      *)
(* lists hold indices into that heap.                                      *)
(***************************************************************************)
EXTENDS Naturals, Integers, Sequences, FiniteSets, TLC

\* ------------------------------------------------------------------------
\* Bounds of the model
\* ------------------------------------------------------------------------
MaxGames == 2      \* records in the initial data/schedule.json
MaxFetch == 2      \* records returned by one scrape
MaxRuns  == 2      \* driver runs started in one behaviour
MaxStr   == 3      \* characters of an argument of slug
MaxSeason == 3     \* games, and days, of an argument of calculate_record

\* ------------------------------------------------------------------------
\* Strings.  A Python str is a sequence of characters; Chars gives the
\* characters of every string literal the model uses.
\* ------------------------------------------------------------------------
Absent == "<absent>"   \* dict key not present (dict.get returns its default)

Chars(s) ==
  CASE s = ""                -> << >>
    [] s = "IU"              -> <<"I","U">>
    [] s = "iu"              -> <<"i","u">>
    [] s = "regular"         -> <<"r","e","g","u","l","a","r">>
    [] s = "ncaa_tournament" -> <<"n","c","a","a","_","t","o","u","r","n","a","m","e","n","t">>
    [] s = "W 70-60"         -> <<"W"," ","7","0","-","6","0">>
    [] s = "L 55-60"         -> <<"L"," ","5","5","-","6","0">>
    [] s = "W 80-75"         -> <<"W"," ","8","0","-","7","5">>
    [] s = "T 60-60"         -> <<"T"," ","6","0","-","6","0">>
    [] OTHER                 -> << >>

LowerOf(c) ==
  CASE c = "I" -> "i" [] c = "U" -> "u" [] c = "W" -> "w" [] c = "L" -> "l"
    [] c = "A" -> "a" [] c = "T" -> "t"
    [] OTHER -> c
SpaceChars == {" ", "\t"}
AlnumChars == {"a","c","e","g","i","l","m","n","o","r","t","u","w",
               "0","1","5","6","7","8"}

RECURSIVE StripLeft(_, _)
StripLeft(cs, drop) ==
  IF cs # << >> /\ Head(cs) \in drop THEN StripLeft(Tail(cs), drop) ELSE cs

RECURSIVE StripRight(_, _)
StripRight(cs, drop) ==
  IF cs # << >> /\ cs[Len(cs)] \in drop
  THEN StripRight(SubSeq(cs, 1, Len(cs) - 1), drop) ELSE cs

Strip(cs, drop) == StripRight(StripLeft(cs, drop), drop)

\* re.sub(r"[cls]+", rep, cs): every maximal run of characters of cls
\* becomes the single character rep
RECURSIVE SubRuns(_, _, _, _)
SubRuns(cs, cls, rep, inRun) ==
  IF cs = << >> THEN << >>
  ELSE IF Head(cs) \in cls
       THEN (IF inRun THEN << >> ELSE <<rep>>) \o SubRuns(Tail(cs), cls, rep, TRUE)
       ELSE <<Head(cs)>> \o SubRuns(Tail(cs), cls, rep, FALSE)

CharsOf(cs) == {cs[i] : i \in 1..Len(cs)}

normalize_ws(cs) == SubRuns(Strip(cs, SpaceChars), SpaceChars, " ", FALSE)

Lowered(cs) == [i \in 1..Len(cs) |-> LowerOf(cs[i])]

\* mutant: the .lower() of line 18 is missing
SlugKeepsCase(cs) ==
  LET s1 == normalize_ws(cs)
      s2 == SubRuns(s1, CharsOf(s1) \ AlnumChars, "-", FALSE)
  IN  Strip(s2, {"-"})

slug(cs) ==
  LET s1 == Lowered(normalize_ws(cs))
      s2 == SubRuns(s1, CharsOf(s1) \ AlnumChars, "-", FALSE)
  IN  Strip(s2, {"-"})

\* mutant: the .strip("-") of update_schedule.py line 22 is missing
USlugNoStrip(cs) ==
  LET s1 == Lowered(cs)
  IN  SubRuns(s1, CharsOf(s1) \ AlnumChars, "-", FALSE)

\* update_schedule.py has its own slug, without normalize_ws
uslug(cs) ==
  LET s1 == Lowered(cs)
      s2 == SubRuns(s1, CharsOf(s1) \ AlnumChars, "-", FALSE)
  IN  Strip(s2, {"-"})

\* Dates are ISO strings "YYYY-MM-DD" compared as strings; the model uses
\* day numbers of one month, rendered with two digits.
DateIso(d) == <<"0", CASE d = 1 -> "1" [] d = 2 -> "2" [] OTHER -> "3">>

\* f"{date_iso}-{slug(opponent)}-{slug(phase)}" on the characters
stable_id_chars(date_iso, opponent, phase) ==
  date_iso \o <<"-">> \o slug(opponent) \o <<"-">> \o slug(phase)

stable_id(date, opponent, phase) ==
  stable_id_chars(DateIso(date), Chars(opponent), Chars(phase))

\* update_schedule.py lines 25-26, on the characters
ustable_id_chars(date_iso, opponent, phase) ==
  date_iso \o <<"-">> \o uslug(opponent) \o <<"-">> \o uslug(phase)

ustable_id(date, opponent, phase) ==
  ustable_id_chars(DateIso(date), Chars(opponent), Chars(phase))

NoId == << >>     \* no stable_id key, or an empty one (both falsy)


\* ------------------------------------------------------------------------
\* Game records (dicts of data/schedule.json) and fetched records
\* ------------------------------------------------------------------------
Game(d, o, loc, ph, tv, res, notes, sid) ==
  [date |-> d, opponent |-> o, location |-> loc, phase |-> ph, tv |-> tv,
   result |-> res, notes |-> notes, stable_id |-> sid]

Fetched(d, o, tv, res) == [date |-> d, opponent |-> o, tv |-> tv, result |-> res]

\* Records a hand-written or previously saved schedule.json can hold
BaselineRecords ==
  { Game(1, "IU", "Mackey", "regular", "", "", "home opener",
         stable_id(1, "IU", "regular")),
    Game(2, "iu", "", Absent, "FOX", "W 70-60", "", NoId),
    Game(1, "IU", "", "ncaa_tournament", "CBS", "", "bracket",
         stable_id(1, "IU", "ncaa_tournament")),
    Game(1, "iu", "", "", "BTN", "", "", NoId) }

\* Records the scraper can return (scrape_espn.py lines 69-77)
FetchRecords ==
  { Fetched(1, "IU", "ESPN", ""),
    Fetched(1, "iu", "", "L 55-60"),
    Fetched(2, "iu", "", "L 55-60") }

SeqsUpTo(S, n) == UNION { [1..k -> S] : k \in 0..n }

Key(g) == <<g.date, g.opponent>>

\* scrape_espn.py lines 79-88: the scraper returns at most one record per
\* (date, opponent)
Deduplicated(f) ==
  \A i, j \in 1..Len(f) : Key(f[i]) = Key(f[j]) => i = j

\* a schedule.json lists no game twice
Baselines ==
  { b \in SeqsUpTo(BaselineRecords, MaxGames) :
      \A i, j \in 1..Len(b) : b[i] = b[j] => i = j }
FetchLists == { f \in SeqsUpTo(FetchRecords, MaxFetch) : Deduplicated(f) }

\* ------------------------------------------------------------------------
\* RecordMerger (purdue_refresh_from_web.py lines 125-145).  h is the heap
\* of game objects, n the number of objects of games_old (heap cells 1..n).
\* ------------------------------------------------------------------------
PlaceholderPhases == {"big_ten_tournament", "ncaa_tournament", "placeholder"}

\* g.get("phase", "regular") == "regular"
IsRegular(g) == (IF g.phase = Absent THEN "regular" ELSE g.phase) = "regular"

\* mutant: the dict of line 125 is built without its phase filter
ExistingAnyPhase(h, n, key) ==
  LET hits == { i \in 1..n : Key(h[i]) = key }
  IN  IF hits = {} THEN 0 ELSE CHOOSE i \in hits : \A j \in hits : j <= i

\* existing_regular.get(key): a dict comprehension keeps the last object of
\* a repeated key; 0 stands for "no such key"
ExistingRegular(h, n, key) ==
  LET hits == { i \in 1..n : IsRegular(h[i]) /\ Key(h[i]) = key }
  IN  IF hits = {} THEN 0 ELSE CHOOSE i \in hits : \A j \in hits : j <= i

\* mutant: the "phase" entry of line 133 is missing from the new dict
SkeletonNoPhase(eg) == Game(eg.date, eg.opponent, "", Absent, "", "", "", NoId)

Skeleton(eg) == Game(eg.date, eg.opponent, "", "regular", "", "", "", NoId)

\* mutant: the fetched tv / result is assigned even when it is empty
OverlayAlways(g, eg) == [g EXCEPT !.tv = eg.tv, !.result = eg.result]

\* lines 138-141: only a truthy fetched tv / result is assigned
Overlay(g, eg) ==
  [g EXCEPT !.tv     = IF eg.tv # "" THEN eg.tv ELSE @,
            !.result = IF eg.result # "" THEN eg.result ELSE @]

RECURSIVE MergeLoop(_, _, _, _, _)
MergeLoop(h, n, espn_games, k, merged_regular) ==
  IF k > Len(espn_games) THEN [heap |-> h, refs |-> merged_regular]
  ELSE LET eg == espn_games[k]
           i  == ExistingRegular(h, n, Key(eg))
       IN  IF i = 0
           THEN MergeLoop(Append(h, Overlay(Skeleton(eg), eg)), n, espn_games,
                          k + 1, Append(merged_regular, Len(h) + 1))
           ELSE MergeLoop([h EXCEPT ![i] = Overlay(@, eg)], n, espn_games,
                          k + 1, Append(merged_regular, i))

\* mutant: the tournament phases are missing from the tuple of line 144
PlaceholdersOnly(h, n) ==
  SelectSeq([i \in 1..n |-> i], LAMBDA i : h[i].phase = "placeholder")

\* line 144: g.get("phase") in (...)
Placeholders(h, n) ==
  SelectSeq([i \in 1..n |-> i], LAMBDA i : h[i].phase \in PlaceholderPhases)

MergeGames(h, n, espn_games) ==
  LET m == MergeLoop(h, n, espn_games, 1, << >>)
  IN  [heap |-> m.heap, refs |-> m.refs \o Placeholders(h, n)]

\* ------------------------------------------------------------------------
\* IdentityAssigner loop (lines 151-153)
\* ------------------------------------------------------------------------
PhaseOr(g) == IF g.phase \in {Absent, ""} THEN "regular" ELSE g.phase

Tagged(g) ==
  LET ph == PhaseOr(g)
  IN  [g EXCEPT !.phase = ph, !.stable_id = stable_id(g.date, g.opponent, ph)]

\* mutant: line 152 is missing, the phase is left as loaded
AssignAllRawPhase(h, refs) ==
  [i \in 1..Len(h) |->
     IF \E k \in 1..Len(refs) : refs[k] = i
     THEN [h[i] EXCEPT !.stable_id = stable_id(h[i].date, h[i].opponent, h[i].phase)]
     ELSE h[i]]

AssignAll(h, refs) ==
  [i \in 1..Len(h) |-> IF \E k \in 1..Len(refs) : refs[k] = i
                       THEN Tagged(h[i]) ELSE h[i]]

\* ------------------------------------------------------------------------
\* ChangeDetector (lines 87-92 and 155-166)
\* ------------------------------------------------------------------------
TrackedFields == {"opponent", "location", "tv", "result", "date", "phase"}

\* (x.get(k, "") or ""); the date is always present
Norm(g, k) == IF k = "date" THEN g.date ELSE IF g[k] = Absent THEN "" ELSE g[k]

diff_game(old, new) ==
  { [field |-> k, from |-> Norm(old, k), to |-> Norm(new, k)] :
      k \in { f \in TrackedFields : Norm(old, f) # Norm(new, f) } }

HasId(g) == g.stable_id # NoId

\* old_by_id[sid]: the last object of games_old carrying sid; 0 if none.
\* The dict is built from the objects of games_old as they are at line 156.
OldById(h, n, sid) ==
  LET hits == { i \in 1..n : HasId(h[i]) /\ h[i].stable_id = sid }
  IN  IF hits = {} THEN 0 ELSE CHOOSE i \in hits : \A j \in hits : j <= i

RECURSIVE DiffLoop(_, _, _, _, _, _)
DiffLoop(h, n, refs, k, changed, unchanged) ==
  IF k > Len(refs) THEN [changed |-> changed, unchanged |-> unchanged]
  ELSE LET g == h[refs[k]]
           o == OldById(h, n, g.stable_id)
           d == IF o = 0 THEN {} ELSE diff_game(h[o], g)
       IN  IF o = 0 THEN DiffLoop(h, n, refs, k + 1, changed, unchanged)
           ELSE IF d # {}
           THEN DiffLoop(h, n, refs, k + 1,
                         Append(changed, [stable_id |-> g.stable_id, date |-> g.date,
                                          opponent |-> g.opponent, changes |-> d]),
                         unchanged)
           ELSE DiffLoop(h, n, refs, k + 1, changed, unchanged + 1)

\* ------------------------------------------------------------------------
\* RecordCalculator and event payload (lines 37-85)
\* ------------------------------------------------------------------------
StartsWith(s, c) == Chars(s) # << >> /\ Chars(s)[1] = c

\* mutant: line 42 skips the games of the cutoff date too
RECURSIVE CalculateRecordBefore(_, _)
CalculateRecordBefore(games, up_to_date) ==
  IF games = << >> THEN <<0, 0>>
  ELSE LET g    == Head(games)
           rest == CalculateRecordBefore(Tail(games), up_to_date)
       IN  IF g.date >= up_to_date THEN rest
           ELSE IF StartsWith(g.result, "W") THEN <<rest[1] + 1, rest[2]>>
           ELSE IF StartsWith(g.result, "L") THEN <<rest[1], rest[2] + 1>>
           ELSE rest

RECURSIVE calculate_record(_, _)
calculate_record(games, up_to_date) ==
  IF games = << >> THEN <<0, 0>>
  ELSE LET g    == Head(games)
           rest == calculate_record(Tail(games), up_to_date)
       IN  IF g.date > up_to_date THEN rest
           ELSE IF StartsWith(g.result, "W") THEN <<rest[1] + 1, rest[2]>>
           ELSE IF StartsWith(g.result, "L") THEN <<rest[1], rest[2] + 1>>
           ELSE rest

NoRecord == << >>

build_event_body(game, record) ==
  LET shown == IF game.result # "" /\ record # NoRecord
                  /\ (record[1] > 0 \/ record[2] > 0)
               THEN record ELSE NoRecord
  IN  [date |-> game.date,
       summary |-> [opponent |-> game.opponent, result |-> game.result,
                    record |-> shown],
       description |-> [tv |-> game.tv, result |-> game.result,
                        record |-> shown, notes |-> game.notes],
       location |-> game.location]

\* sorted(games_new, key=lambda x: x["date"]): a stable sort of the refs
RECURSIVE InsertByDate(_, _, _)
InsertByDate(h, sorted, r) ==
  IF sorted = << >> THEN <<r>>
  ELSE IF h[Head(sorted)].date <= h[r].date
       THEN <<Head(sorted)>> \o InsertByDate(h, Tail(sorted), r)
       ELSE <<r>> \o sorted

RECURSIVE SortByDate(_, _)
SortByDate(h, refs) ==
  IF refs = << >> THEN << >>
  ELSE InsertByDate(h, SortByDate(h, SubSeq(refs, 1, Len(refs) - 1)),
                    refs[Len(refs)])

Deref(h, refs) == [k \in 1..Len(refs) |-> h[refs[k]]]


\* ------------------------------------------------------------------------
\* State
\* ------------------------------------------------------------------------
Refreshers == {"r1", "r2"}     \* runs of purdue_refresh_from_web.py
Updaters   == {"u1"}           \* runs of update_schedule.py
Procs      == Refreshers \cup Updaters
Free       == 0

VARIABLES
  baseline,   \* "games" of data/schedule.json
  store,      \* events of the calendar, the event id is the index
  lock,       \* number of the run holding the FileLock, or Free; the
              \* program frees it at line 298 only
  logs,       \* number of run-<stamp>.json files in the log directory
  runs,       \* number of runs started
  page,       \* the games the schedule page lists
  loc,        \* local variables of each run
  torn,       \* data/schedule.json holds a truncated, unparseable document
  fn          \* one call of a pure function: its arguments and its result

vars == <<baseline, store, lock, logs, runs, page, loc, torn, fn>>

\* time window of list_events_window (get_time_window, lines 25-35)
TimeMin == 1
TimeMax == 2

NoMap == [x \in {} |-> 0]
NoCall == [op |-> "none"]
NoSummary == [status |-> "none"]

LocInit ==
  [pc |-> "idle", run |-> 0, loaded |-> << >>, heap |-> << >>, fetch |-> "none",
   espn_games |-> << >>, games_new |-> << >>, changed |-> << >>,
   unchanged |-> 0, created |-> 0, updated |-> 0, errors |-> 0, warnings |-> 0,
   existing_by_stable |-> NoMap, todo |-> << >>, calls |-> << >>,
   wrote |-> 0, logged |-> 0, timed_out |-> FALSE, summary |-> NoSummary]

\* an event the user made by hand: no private stable_id tag
ForeignEvent ==
  [tag |-> NoId,
   body |-> [date |-> 1, summary |-> [opponent |-> "", result |-> "", record |-> NoRecord],
             description |-> [tv |-> "", result |-> "", record |-> NoRecord, notes |-> ""],
             location |-> ""]]

Init ==
  /\ baseline \in Baselines
  /\ store = <<ForeignEvent>>
  /\ lock = Free
  /\ logs = 0
  /\ runs = 0
  /\ page \in FetchLists
  /\ loc = [p \in Procs |-> LocInit]
  /\ torn = FALSE
  /\ fn = NoCall

Running(p) == loc[p].pc \notin {"idle", "done", "aborted", "crashed", "exited"}

Set(p, l) == loc' = [loc EXCEPT ![p] = l]
Goto(p, label) == loc' = [loc EXCEPT ![p].pc = label]
\* the process is gone: its local variables with it
Exit(p, label) == Set(p, [LocInit EXCEPT !.pc = label, !.run = loc[p].run])


\* ------------------------------------------------------------------------
\* purdue_refresh_from_web.py main()
\* ------------------------------------------------------------------------
\* A driver is started (lines 95-103: arguments, config, log directory).
\* Every start is a new operating-system process; p names the job that
\* starts it (the scheduled refresh, a refresh by hand, the CI update).
Begin(p) ==
  /\ ~Running(p)
  /\ runs < MaxRuns
  /\ runs' = runs + 1
  /\ Set(p, [LocInit EXCEPT !.pc = "start", !.run = runs + 1])
  /\ UNCHANGED <<torn, fn, baseline, store, lock, logs, page>>

\* lines 105-107: lock.acquire(timeout=2) succeeds
LockAcquire(p) ==
  /\ p \in Refreshers /\ loc[p].pc = "start"
  /\ lock = Free
  /\ lock' = loc[p].run
  /\ Goto(p, "locked")
  /\ UNCHANGED <<torn, fn, baseline, store, logs, runs, page>>

\* mutant: the return of line 110 is missing, the run goes on without lock
LockTimeoutGoesOn(p) ==
  /\ p \in Refreshers /\ loc[p].pc = "start"
  /\ lock # Free
  /\ loc' = [loc EXCEPT ![p].pc = "locked", ![p].timed_out = TRUE]
  /\ UNCHANGED <<torn, fn, baseline, store, lock, logs, runs, page>>

\* lines 108-110: Timeout, the lock stayed held by someone else; return
LockTimeout(p) ==
  /\ p \in Refreshers /\ loc[p].pc = "start"
  /\ lock # Free
  /\ loc' = [loc EXCEPT ![p].pc = "aborted", ![p].timed_out = TRUE]
  /\ UNCHANGED <<torn, fn, baseline, store, lock, logs, runs, page>>

\* lines 116-118: load_json
Load(p) ==
  /\ p \in Refreshers /\ loc[p].pc = "locked"
  /\ ~torn
  /\ loc' = [loc EXCEPT ![p].pc = "loaded", ![p].loaded = baseline,
                        ![p].heap = baseline]
  /\ UNCHANGED <<torn, fn, baseline, store, lock, logs, runs, page>>

\* line 117 raises (file missing or not JSON): the exception leaves main()
LoadFail(p) ==
  /\ p \in Refreshers /\ loc[p].pc = "locked"
  /\ Exit(p, "crashed")
  /\ UNCHANGED <<torn, fn, baseline, store, lock, logs, runs, page>>

\* mutant: the failed scrape leaves an empty candidate list
FetchFailedEmpty(p) ==
  /\ p \in Refreshers /\ loc[p].pc = "loaded"
  /\ loc' = [loc EXCEPT ![p].pc = "merged", ![p].fetch = "failed",
                        ![p].games_new = << >>,
                        ![p].warnings = @ + 1]
  /\ UNCHANGED <<torn, fn, baseline, store, lock, logs, runs, page>>

\* lines 121-123, 147-148: the scrape raises, games_new is games_old itself
FetchFailed(p) ==
  /\ p \in Refreshers /\ loc[p].pc = "loaded"
  /\ loc' = [loc EXCEPT ![p].pc = "merged", ![p].fetch = "failed",
                        ![p].games_new = [i \in 1..Len(loc[p].loaded) |-> i],
                        ![p].warnings = @ + 1]
  /\ UNCHANGED <<torn, fn, baseline, store, lock, logs, runs, page>>

\* lines 123-145: the scrape returns and its records are merged.  The
\* scraper is the source provider: it returns the page's games or raises.
Merge(p) ==
  /\ p \in Refreshers /\ loc[p].pc = "loaded"
  /\ LET m == MergeGames(loc[p].heap, Len(loc[p].loaded), page)
     IN  loc' = [loc EXCEPT ![p].pc = "merged", ![p].fetch = "ok",
                            ![p].espn_games = page, ![p].heap = m.heap,
                            ![p].games_new = m.refs]
  /\ UNCHANGED <<torn, fn, baseline, store, lock, logs, runs, page>>

\* lines 150-153
AssignIds(p) ==
  /\ p \in Refreshers /\ loc[p].pc = "merged"
  /\ loc' = [loc EXCEPT ![p].pc = "tagged",
                        ![p].heap = AssignAll(@, loc[p].games_new)]
  /\ UNCHANGED <<torn, fn, baseline, store, lock, logs, runs, page>>

\* lines 155-166
Diff(p) ==
  /\ p \in Refreshers /\ loc[p].pc = "tagged"
  /\ LET d == DiffLoop(loc[p].heap, Len(loc[p].loaded), loc[p].games_new, 1, << >>, 0)
     IN  loc' = [loc EXCEPT ![p].pc = "diffed", ![p].changed = d.changed,
                            ![p].unchanged = d.unchanged]
  /\ UNCHANGED <<torn, fn, baseline, store, lock, logs, runs, page>>

\* lines 168-171: save_json
Save(p) ==
  /\ p \in Refreshers /\ loc[p].pc = "diffed"
  /\ baseline' = Deref(loc[p].heap, loc[p].games_new)
  /\ torn' = FALSE
  /\ loc' = [loc EXCEPT ![p].pc = "saved", ![p].wrote = @ + 1]
  /\ UNCHANGED <<fn, store, lock, logs, runs, page>>

\* line 171 fails and the exception, or the kill, ends main().  save_json
\* is path.write_text (utils.py 32-33): the file is opened for writing,
\* which truncates it, and then written.  A failure before the open
\* (permissions) leaves the old document; a failure after it (disk full,
\* kill, power loss) leaves an empty or partly written file.
SaveFail(p) ==
  /\ p \in Refreshers /\ loc[p].pc = "diffed"
  /\ torn' \in {torn, TRUE}
  /\ baseline' = IF torn' THEN << >> ELSE baseline
  /\ Exit(p, "crashed")
  /\ UNCHANGED <<fn, store, lock, logs, runs, page>>

\* gcal.py lines 38-55 and refresh lines 181-187: the events of the window
\* that carry a stable_id tag, later events replacing earlier ones
Listed(st) ==
  { i \in 1..Len(st) : TimeMin <= st[i].body.date /\ st[i].body.date <= TimeMax }

ExistingByStable(st) ==
  LET tagged == { i \in Listed(st) : st[i].tag # NoId }
  IN  [sid \in { st[i].tag : i \in tagged } |->
         CHOOSE i \in tagged : st[i].tag = sid
                               /\ \A j \in tagged : st[j].tag = sid => j <= i]

\* mutant: the sync phase starts before the save of lines 168-171
ConnectBeforeSave(p) ==
  /\ p \in Refreshers /\ loc[p].pc = "diffed"
  /\ LET sorted_games == SortByDate(loc[p].heap, loc[p].games_new)
     IN  loc' = [loc EXCEPT ![p].pc = IF sorted_games = << >> THEN "synced" ELSE "syncing",
                            ![p].existing_by_stable = ExistingByStable(store),
                            ![p].todo = sorted_games,
                            ![p].calls = Append(@, [op |-> "list", sid |-> NoId, ok |-> TRUE])]
  /\ UNCHANGED <<torn, fn, baseline, store, lock, logs, runs, page>>

\* lines 174-191: session, calendar, event list, sorted candidates
Connect(p) ==
  /\ p \in Refreshers /\ loc[p].pc = "saved"
  /\ LET sorted_games == SortByDate(loc[p].heap, loc[p].games_new)
     IN  loc' = [loc EXCEPT ![p].pc = IF sorted_games = << >> THEN "synced" ELSE "syncing",
                            ![p].existing_by_stable = ExistingByStable(store),
                            ![p].todo = sorted_games,
                            ![p].calls = Append(@, [op |-> "list", sid |-> NoId, ok |-> TRUE])]
  /\ UNCHANGED <<torn, fn, baseline, store, lock, logs, runs, page>>

\* mutant: line 202 is missing, the failure is not counted
ConnectFailUncounted(p) ==
  /\ p \in Refreshers /\ loc[p].pc = "saved"
  /\ loc' = [loc EXCEPT ![p].pc = "synced", ![p].warnings = @ + 1,
                        ![p].calls = Append(@, [op |-> "list", sid |-> NoId, ok |-> FALSE])]
  /\ UNCHANGED <<torn, fn, baseline, store, lock, logs, runs, page>>

\* lines 175-181 raise, caught at 201-203
ConnectFail(p) ==
  /\ p \in Refreshers /\ loc[p].pc = "saved"
  /\ loc' = [loc EXCEPT ![p].pc = "synced", ![p].errors = @ + 1,
                        ![p].warnings = @ + 1,
                        ![p].calls = Append(@, [op |-> "list", sid |-> NoId, ok |-> FALSE])]
  /\ UNCHANGED <<torn, fn, baseline, store, lock, logs, runs, page>>

\* mutant: the lookup of line 64 is missing
UpsertAlwaysInsert(sid, existing_by_stable) == "insert"

\* gcal.py lines 57-69: patch when the tag is known, insert otherwise
UpsertOp(sid, existing_by_stable) ==
  IF sid \in DOMAIN existing_by_stable THEN "patch" ELSE "insert"

\* lines 193-194 for the candidate at heap cell r
BodyFor(h, games_new, r) ==
  LET sorted_games == Deref(h, SortByDate(h, games_new))
      record == IF h[r].result # "" THEN calculate_record(sorted_games, h[r].date)
                ELSE NoRecord
  IN  build_event_body(h[r], record)

\* mutant: lines 58-62 of gcal.py are missing, the payload carries no tag
SyncItemUntagged(p) ==
  /\ p \in Refreshers /\ loc[p].pc = "syncing"
  /\ LET r    == Head(loc[p].todo)
         sid  == loc[p].heap[r].stable_id
         ev   == [tag |-> NoId, body |-> BodyFor(loc[p].heap, loc[p].games_new, r)]
         op   == UpsertOp(sid, loc[p].existing_by_stable)
         rest == Tail(loc[p].todo)
     IN  /\ store' = IF op = "patch"
                     THEN [store EXCEPT ![loc[p].existing_by_stable[sid]] = ev]
                     ELSE Append(store, ev)
         /\ loc' = [loc EXCEPT ![p].pc = IF rest = << >> THEN "synced" ELSE "syncing",
                               ![p].todo = rest,
                               ![p].created = IF op = "insert" THEN @ + 1 ELSE @,
                               ![p].updated = IF op = "patch" THEN @ + 1 ELSE @,
                               ![p].calls = Append(@, [op |-> op, sid |-> sid, ok |-> TRUE])]
  /\ UNCHANGED <<torn, fn, baseline, lock, logs, runs, page>>

\* mutant: the patch of gcal.py line 66 goes to the first listed event
SyncItemPatchesFirst(p) ==
  /\ p \in Refreshers /\ loc[p].pc = "syncing"
  /\ LET r    == Head(loc[p].todo)
         sid  == loc[p].heap[r].stable_id
         ev   == [tag |-> sid, body |-> BodyFor(loc[p].heap, loc[p].games_new, r)]
         op   == UpsertOp(sid, loc[p].existing_by_stable)
         rest == Tail(loc[p].todo)
     IN  /\ store' = IF op = "patch"
                     THEN [store EXCEPT ![1] = ev]
                     ELSE Append(store, ev)
         /\ loc' = [loc EXCEPT ![p].pc = IF rest = << >> THEN "synced" ELSE "syncing",
                               ![p].todo = rest,
                               ![p].created = IF op = "insert" THEN @ + 1 ELSE @,
                               ![p].updated = IF op = "patch" THEN @ + 1 ELSE @,
                               ![p].calls = Append(@, [op |-> op, sid |-> sid, ok |-> TRUE])]
  /\ UNCHANGED <<torn, fn, baseline, lock, logs, runs, page>>

\* lines 192-199: one iteration of the loop, the call succeeds
SyncItem(p) ==
  /\ p \in Refreshers /\ loc[p].pc = "syncing"
  /\ LET r    == Head(loc[p].todo)
         sid  == loc[p].heap[r].stable_id
         ev   == [tag |-> sid, body |-> BodyFor(loc[p].heap, loc[p].games_new, r)]
         op   == UpsertOp(sid, loc[p].existing_by_stable)
         rest == Tail(loc[p].todo)
     IN  /\ store' = IF op = "patch"
                     THEN [store EXCEPT ![loc[p].existing_by_stable[sid]] = ev]
                     ELSE Append(store, ev)
         /\ loc' = [loc EXCEPT ![p].pc = IF rest = << >> THEN "synced" ELSE "syncing",
                               ![p].todo = rest,
                               ![p].created = IF op = "insert" THEN @ + 1 ELSE @,
                               ![p].updated = IF op = "patch" THEN @ + 1 ELSE @,
                               ![p].calls = Append(@, [op |-> op, sid |-> sid, ok |-> TRUE])]
  /\ UNCHANGED <<torn, fn, baseline, lock, logs, runs, page>>

\* lines 192-203: the call of one iteration raises; the except clause is
\* outside the loop
SyncItemFail(p) ==
  /\ p \in Refreshers /\ loc[p].pc = "syncing"
  /\ LET sid == loc[p].heap[Head(loc[p].todo)].stable_id
         op  == UpsertOp(sid, loc[p].existing_by_stable)
     IN  loc' = [loc EXCEPT ![p].pc = "synced", ![p].errors = @ + 1,
                            ![p].warnings = @ + 1,
                            ![p].calls = Append(@, [op |-> op, sid |-> sid, ok |-> FALSE])]
  /\ UNCHANGED <<torn, fn, baseline, store, lock, logs, runs, page>>

\* mutant: line 206 looks at the warnings too
SummaryCountsWarnings(l) ==
  [status |-> IF l.errors = 0 /\ l.warnings = 0 THEN "ok" ELSE "error",
   record |-> calculate_record(Deref(l.heap, SortByDate(l.heap, l.games_new)), 9999),
   created |-> l.created, updated |-> l.updated, unchanged |-> l.unchanged,
   errors |-> l.errors, changed_games |-> l.changed, warnings |-> l.warnings]

\* lines 205-224: the run summary
Summary(l) ==
  [status |-> IF l.errors = 0 THEN "ok" ELSE "error",
   record |-> calculate_record(Deref(l.heap, SortByDate(l.heap, l.games_new)), 9999),
   created |-> l.created, updated |-> l.updated, unchanged |-> l.unchanged,
   errors |-> l.errors, changed_games |-> l.changed, warnings |-> l.warnings]

\* lines 205-296: the run summary and the run log files that hold it
WriteLogs(p) ==
  /\ p \in Refreshers /\ loc[p].pc = "synced"
  /\ logs' = logs + 1
  /\ loc' = [loc EXCEPT ![p].pc = "logged", ![p].logged = @ + 1,
                        ![p].summary = Summary(loc[p])]
  /\ UNCHANGED <<torn, fn, baseline, store, lock, runs, page>>

\* line 232 raises: the exception leaves main()
WriteLogsFail(p) ==
  /\ p \in Refreshers /\ loc[p].pc = "synced"
  /\ Exit(p, "crashed")
  /\ UNCHANGED <<torn, fn, baseline, store, lock, logs, runs, page>>

\* line 298
Release(p) ==
  /\ p \in Refreshers /\ loc[p].pc = "logged"
  /\ lock' = Free
  /\ Exit(p, "done")
  /\ UNCHANGED <<torn, fn, baseline, store, logs, runs, page>>


\* ------------------------------------------------------------------------
\* update_schedule.py main(): no lock, no calendar, no run log
\* ------------------------------------------------------------------------
\* lines 59-61
ULoad(p) ==
  /\ p \in Updaters /\ loc[p].pc = "start"
  /\ ~torn
  /\ loc' = [loc EXCEPT ![p].pc = "loaded", ![p].loaded = baseline,
                        ![p].heap = baseline]
  /\ UNCHANGED <<torn, fn, baseline, store, lock, logs, runs, page>>

\* line 60 raises (the file is not JSON): the exception ends the process
\* with exit code 1
ULoadFail(p) ==
  /\ p \in Updaters /\ loc[p].pc = "start"
  /\ Exit(p, "exited")
  /\ UNCHANGED <<torn, fn, baseline, store, lock, logs, runs, page>>

\* lines 65-70: the scrape raises, sys.exit(1)
UFetchFailed(p) ==
  /\ p \in Updaters /\ loc[p].pc = "loaded"
  /\ Exit(p, "exited")
  /\ UNCHANGED <<torn, fn, baseline, store, lock, logs, runs, page>>

\* lines 66-94
UMerge(p) ==
  /\ p \in Updaters /\ loc[p].pc = "loaded"
  /\ LET m == MergeGames(loc[p].heap, Len(loc[p].loaded), page)
     IN  loc' = [loc EXCEPT ![p].pc = "merged", ![p].fetch = "ok",
                            ![p].espn_games = page, ![p].heap = m.heap,
                            ![p].games_new = m.refs]
  /\ UNCHANGED <<torn, fn, baseline, store, lock, logs, runs, page>>

UTagged(g) ==
  LET ph == PhaseOr(g)
  IN  [g EXCEPT !.phase = ph, !.stable_id = ustable_id(g.date, g.opponent, ph)]

UAssignAll(h, refs) ==
  [i \in 1..Len(h) |-> IF \E k \in 1..Len(refs) : refs[k] = i
                       THEN UTagged(h[i]) ELSE h[i]]

\* lines 96-99
UAssignIds(p) ==
  /\ p \in Updaters /\ loc[p].pc = "merged"
  /\ loc' = [loc EXCEPT ![p].pc = "tagged",
                        ![p].heap = UAssignAll(@, loc[p].games_new)]
  /\ UNCHANGED <<torn, fn, baseline, store, lock, logs, runs, page>>

\* lines 101-109
UDiff(p) ==
  /\ p \in Updaters /\ loc[p].pc = "tagged"
  /\ LET d == DiffLoop(loc[p].heap, Len(loc[p].loaded), loc[p].games_new, 1, << >>, 0)
     IN  loc' = [loc EXCEPT ![p].pc = "diffed", ![p].changed = d.changed]
  /\ UNCHANGED <<torn, fn, baseline, store, lock, logs, runs, page>>

\* lines 111-115
USave(p) ==
  /\ p \in Updaters /\ loc[p].pc = "diffed"
  /\ baseline' = Deref(loc[p].heap, loc[p].games_new)
  /\ torn' = FALSE
  /\ loc' = [loc EXCEPT ![p].pc = "saved", ![p].wrote = @ + 1]
  /\ UNCHANGED <<fn, store, lock, logs, runs, page>>

\* line 115 fails: data_path.write_text, as in SaveFail
USaveFail(p) ==
  /\ p \in Updaters /\ loc[p].pc = "diffed"
  /\ torn' \in {torn, TRUE}
  /\ baseline' = IF torn' THEN << >> ELSE baseline
  /\ Exit(p, "exited")
  /\ UNCHANGED <<fn, store, lock, logs, runs, page>>

\* lines 117-145: the report is printed and the process ends
UReport(p) ==
  /\ p \in Updaters /\ loc[p].pc = "saved"
  /\ Exit(p, "done")
  /\ UNCHANGED <<torn, fn, baseline, store, lock, logs, runs, page>>

\* ------------------------------------------------------------------------
\* Specifications
\* ------------------------------------------------------------------------
Work(p) ==
  \/ LockAcquire(p) \/ LockTimeout(p)
  \/ Load(p) \/ LoadFail(p)
  \/ FetchFailed(p) \/ Merge(p)
  \/ AssignIds(p) \/ Diff(p)
  \/ Save(p) \/ SaveFail(p)
  \/ Connect(p) \/ ConnectFail(p)
  \/ SyncItem(p) \/ SyncItemFail(p)
  \/ WriteLogs(p) \/ WriteLogsFail(p)
  \/ Release(p)
  \/ ULoad(p) \/ ULoadFail(p) \/ UFetchFailed(p) \/ UMerge(p)
  \/ UAssignIds(p) \/ UDiff(p) \/ USave(p) \/ USaveFail(p) \/ UReport(p)

Quiet == \A q \in Procs : ~Running(q)

\* Spec: the scheduled refresh and the CI update, one run after the other
Scheduled == {"r1", "u1"}

Next == \E p \in Scheduled : (Quiet /\ Begin(p)) \/ Work(p)

Spec == Init /\ [][Next]_vars

\* ConcSpec: the drivers are started while others are still running
ConcBaseline ==
  << Game(1, "IU", "Mackey", "regular", "", "", "home opener",
          stable_id(1, "IU", "regular")) >>

ConcPage == << Fetched(1, "IU", "ESPN", ""), Fetched(1, "iu", "", "L 55-60") >>

ConcInit ==
  /\ baseline = ConcBaseline
  /\ store = <<ForeignEvent>>
  /\ lock = Free
  /\ logs = 0
  /\ runs = 0
  /\ page = ConcPage
  /\ loc = [p \in Procs |-> LocInit]
  /\ torn = FALSE
  /\ fn = NoCall

ConcNext == \E p \in Procs : Begin(p) \/ Work(p)

ConcSpec == ConcInit /\ [][ConcNext]_vars


\* ------------------------------------------------------------------------
\* FuncSpec: single calls of the pure functions slug, stable_id and
\* calculate_record, and of the merge, id and diff steps of the two drivers
\* side by side, on arguments drawn from bounded sets.  fn holds the
\* arguments and the values returned so far.
\* ------------------------------------------------------------------------
Alphabet == {"A", "a", "1", " ", "\t", "-"}
Strings  == SeqsUpTo(Alphabet, MaxStr)

UpperOf(c) == IF c = "a" THEN "A" ELSE c
SwapCase(cs) ==
  [i \in 1..Len(cs) |-> IF LowerOf(cs[i]) # cs[i] THEN LowerOf(cs[i])
                        ELSE UpperOf(cs[i])]
Padded(cs) == <<" ">> \o cs \o <<"\t", " ">>
RECURSIVE Stretched(_)
Stretched(cs) ==
  IF cs = << >> THEN << >>
  ELSE (IF Head(cs) \in AlnumChars \cup {"A"} THEN <<Head(cs)>>
        ELSE <<Head(cs), Head(cs)>>) \o Stretched(Tail(cs))

Kinds == {"same", "case", "pad", "runs"}
Variant(kind, cs) ==
  CASE kind = "case" -> SwapCase(cs)
    [] kind = "pad"  -> Padded(cs)
    [] kind = "runs" -> Stretched(cs)
    [] OTHER         -> cs

PhaseInputs == { Chars("regular"), <<"A", " ", "-">> }

SlugInputs ==
  { [op |-> "slug", s |-> s, first |-> << >>, second |-> << >>, calls |-> 0] :
      s \in Strings }

StableIdInputs ==
  { [op |-> "stable_id", date |-> d, opponent |-> o, phase |-> ph, kind |-> k,
     a |-> << >>, b |-> << >>, calls |-> 0] :
      d \in {1, 2}, o \in Strings, ph \in PhaseInputs, k \in Kinds }

ResultTexts == {"W 70-60", "L 55-60", "W 80-75", "T 60-60", ""}
SeasonGames == [date : 1..MaxSeason, result : ResultTexts]
Season ==
  { g \in SeqsUpTo(SeasonGames, MaxSeason) :
      \A i, j \in 1..Len(g) : i < j => g[i].date <= g[j].date }

RecordInputs ==
  { [op |-> "calculate_record", games |-> g, up_to_date |-> d,
     out |-> <<0, 0>>, calls |-> 0] :
      g \in Season, d \in (1..MaxSeason) \cup {9999} }

BothIdInputs ==
  { [op |-> "both_ids", date |-> d, opponent |-> o, phase |-> ph,
     a |-> << >>, b |-> << >>, calls |-> 0] :
      d \in {1, 2}, o \in Strings, ph \in PhaseInputs }

DriverInputs ==
  { [op |-> "drivers", games_old |-> b, espn_games |-> f,
     refresh |-> << >>, update |-> << >>, rchanged |-> << >>, uchanged |-> << >>,
     calls |-> 0] :
      b \in Baselines, f \in FetchLists }

FuncInit ==
  /\ fn \in SlugInputs \cup StableIdInputs \cup RecordInputs
            \cup BothIdInputs \cup DriverInputs
  /\ baseline = << >>
  /\ store = << >>
  /\ lock = Free
  /\ logs = 0
  /\ runs = 0
  /\ page = << >>
  /\ loc = [p \in Procs |-> LocInit]
  /\ torn = FALSE

\* utils.py 17-20: slug is called, the second time on what it returned
SlugCall ==
  /\ fn.op = "slug" /\ fn.calls < 2
  /\ fn' = IF fn.calls = 0
           THEN [fn EXCEPT !.first = slug(fn.s), !.calls = 1]
           ELSE [fn EXCEPT !.second = slug(fn.first), !.calls = 2]
  /\ UNCHANGED <<baseline, store, lock, logs, runs, page, loc, torn>>

\* lines 15-16: stable_id is called on the arguments, then on a variant of
\* the opponent and the phase
StableIdCall ==
  /\ fn.op = "stable_id" /\ fn.calls < 2
  /\ fn' = IF fn.calls = 0
           THEN [fn EXCEPT !.a = stable_id_chars(DateIso(fn.date), fn.opponent, fn.phase),
                           !.calls = 1]
           ELSE [fn EXCEPT !.b = stable_id_chars(DateIso(fn.date),
                                                 Variant(fn.kind, fn.opponent),
                                                 Variant(fn.kind, fn.phase)),
                           !.calls = 2]
  /\ UNCHANGED <<baseline, store, lock, logs, runs, page, loc, torn>>

\* lines 37-49
RecordCall ==
  /\ fn.op = "calculate_record" /\ fn.calls = 0
  /\ fn' = [fn EXCEPT !.out = calculate_record(fn.games, fn.up_to_date), !.calls = 1]
  /\ UNCHANGED <<baseline, store, lock, logs, runs, page, loc, torn>>

\* stable_id of purdue_refresh_from_web.py (lines 15-16) and stable_id of
\* update_schedule.py (lines 25-26) are called on the same arguments
BothIdsCall ==
  /\ fn.op = "both_ids" /\ fn.calls = 0
  /\ fn' = [fn EXCEPT !.a = stable_id_chars(DateIso(fn.date), fn.opponent, fn.phase),
                      !.b = ustable_id_chars(DateIso(fn.date), fn.opponent, fn.phase),
                      !.calls = 1]
  /\ UNCHANGED <<baseline, store, lock, logs, runs, page, loc, torn>>

\* the change entries without the stable_id, which update_schedule.py
\* (line 109) does not store
Changes(changed) ==
  [c \in 1..Len(changed) |->
     [date |-> changed[c].date, opponent |-> changed[c].opponent,
      changes |-> changed[c].changes]]

\* merge, stable ids and diff of purdue_refresh_from_web.py (lines 125-166)
\* and of update_schedule.py (lines 72-109) on the same baseline and fetch
DriversCall ==
  /\ fn.op = "drivers" /\ fn.calls = 0
  /\ LET n  == Len(fn.games_old)
         m  == MergeGames(fn.games_old, n, fn.espn_games)
         rh == AssignAll(m.heap, m.refs)
         uh == UAssignAll(m.heap, m.refs)
     IN  fn' = [fn EXCEPT
                  !.refresh  = Deref(rh, m.refs),
                  !.update   = Deref(uh, m.refs),
                  !.rchanged = Changes(DiffLoop(rh, n, m.refs, 1, << >>, 0).changed),
                  !.uchanged = Changes(DiffLoop(uh, n, m.refs, 1, << >>, 0).changed),
                  !.calls = 1]
  /\ UNCHANGED <<baseline, store, lock, logs, runs, page, loc, torn>>

FuncNext == SlugCall \/ StableIdCall \/ RecordCall \/ BothIdsCall \/ DriversCall

FuncSpec == FuncInit /\ [][FuncNext]_vars


\* ------------------------------------------------------------------------
\* Properties
\* ------------------------------------------------------------------------
SortedCandidates(l) == Deref(l.heap, SortByDate(l.heap, l.games_new))

\* the event list was fetched (the first call of the sync phase succeeded)
ListedOk(l) == l.calls # << >> /\ l.calls[1].ok
InSync(l) == l.pc \in {"syncing", "synced", "logged"}
AllKnown(l) ==
  \A k \in 1..Len(l.games_new) :
    l.heap[l.games_new[k]].stable_id \in DOMAIN l.existing_by_stable

\* C1: when the listed window already holds an event tagged with the
\* stable_id of every candidate, the run creates nothing and issues no
\* insert: every candidate it handles is handled by a patch, in date order,
\* and a run without error patches all of them.
C1_IdempotentRerun ==
  \A p \in Refreshers :
    LET l == loc[p] IN
    (InSync(l) /\ ListedOk(l) /\ AllKnown(l)) =>
      /\ l.created = 0
      /\ \A c \in 2..Len(l.calls) :
           /\ l.calls[c].op = "patch"
           /\ l.calls[c].sid = SortedCandidates(l)[c - 1].stable_id
      /\ (l.pc # "syncing" /\ l.errors = 0) => l.updated = Len(l.games_new)

\* a second run, after a run that created the events, patches both candidates
C1_Witness ==
  \E p \in Refreshers :
    LET l == loc[p] IN
    /\ l.run = 2 /\ l.pc = "synced" /\ ListedOk(l) /\ AllKnown(l)
    /\ l.fetch = "ok" /\ l.errors = 0
    /\ Len(l.games_new) = 2 /\ l.updated = 2 /\ l.created = 0

\* C2: the calendar never holds two events carrying the same stable_id tag.
C2_OneEventPerStableId ==
  \A i, j \in 1..Len(store) :
    (store[i].tag # NoId /\ store[i].tag = store[j].tag) => i = j

\* C3: a failing create/update does not stop the batch: once the sync phase
\* of a run that listed the events is over, a call was issued for every
\* candidate.
C3_FailureIsolation ==
  \A p \in Refreshers :
    LET l == loc[p] IN
    (l.pc \in {"synced", "logged"} /\ ListedOk(l)) =>
      Len(l.calls) - 1 = Len(l.games_new)

\* C4: a tagged regular baseline record with tv "" for which the fetch
\* supplies tv "ESPN" (and nothing else new) is merged to tv "ESPN" and the
\* change list holds exactly one entry for its stable_id, whose changes are
\* {tv: "" -> "ESPN"}.
C4_OverlayVisibleToDiff ==
  \A p \in Refreshers :
    LET l == loc[p]
        n == Len(l.loaded)
    IN  (l.pc = "diffed" /\ l.fetch = "ok") =>
          \A i \in 1..n, k \in 1..Len(l.espn_games) :
            LET old == l.loaded[i]
                eg  == l.espn_games[k]
                sid == stable_id(old.date, old.opponent, "regular")
            IN  ( /\ old.phase = "regular" /\ old.tv = "" /\ old.stable_id = sid
                  /\ Key(eg) = Key(old) /\ eg.tv = "ESPN"
                  /\ eg.result \in {"", old.result}
                  /\ \A m \in 1..Len(l.games_new) :
                       l.heap[l.games_new[m]].stable_id = sid => m = k )
                => /\ l.heap[l.games_new[k]].tv = "ESPN"
                   /\ \E c \in 1..Len(l.changed) :
                        /\ l.changed[c].stable_id = sid
                        /\ l.changed[c].changes =
                             {[field |-> "tv", from |-> "", to |-> "ESPN"]}
                        /\ \A c2 \in 1..Len(l.changed) :
                             l.changed[c2].stable_id = sid => c2 = c


\* the baseline record a fetched record is matched with: the last regular
\* record of the loaded baseline with its (date, opponent); 0 if none
MatchOf(l, eg) ==
  LET hits == { i \in 1..Len(l.loaded) :
                  /\ l.loaded[i].phase \in {Absent, "regular"}
                  /\ l.loaded[i].date = eg.date
                  /\ l.loaded[i].opponent = eg.opponent }
  IN  IF hits = {} THEN 0 ELSE CHOOSE i \in hits : \A j \in hits : j <= i

\* C5: for every fetched record matching a regular baseline record, the
\* merged record keeps the baseline's notes and location (and date, opponent,
\* phase, stable_id), keeps tv / result when the fetched value is empty, and
\* takes the fetched value when it is not.
C5_MergePreservesFields ==
  \A p \in Procs :
    LET l == loc[p] IN
    (l.pc = "merged" /\ l.fetch = "ok") =>
      \A k \in 1..Len(l.espn_games) :
        LET eg == l.espn_games[k]
            i  == MatchOf(l, eg)
        IN  i # 0 =>
              LET old == l.loaded[i]
                  new == l.heap[l.games_new[k]]
              IN  /\ new.notes = old.notes
                  /\ new.location = old.location
                  /\ new.tv = (IF eg.tv = "" THEN old.tv ELSE eg.tv)
                  /\ new.result = (IF eg.result = "" THEN old.result ELSE eg.result)
                  /\ <<new.date, new.opponent, new.phase, new.stable_id>>
                       = <<old.date, old.opponent, old.phase, old.stable_id>>

\* one merge in which a record with notes takes a fetched tv and another
\* record keeps its tv because the fetched tv is empty
C5_Witness ==
  \E p \in Procs :
    LET l == loc[p] IN
    /\ l.pc = "merged" /\ l.fetch = "ok"
    /\ \E k \in 1..Len(l.espn_games) :
         /\ MatchOf(l, l.espn_games[k]) # 0
         /\ l.loaded[MatchOf(l, l.espn_games[k])].notes = "home opener"
         /\ l.espn_games[k].tv = "ESPN"
         /\ l.heap[l.games_new[k]].tv = "ESPN"
         /\ l.heap[l.games_new[k]].notes = "home opener"
    /\ \E k \in 1..Len(l.espn_games) :
         /\ MatchOf(l, l.espn_games[k]) # 0
         /\ l.espn_games[k].tv = ""
         /\ l.heap[l.games_new[k]].tv = "FOX"

Values == {"tv", "result", "location", "notes"}
JustSaved(l) == l.pc = "saved" /\ l.wrote = 1

\* C6 as claimed: whatever the fetch returns, every non-empty tv, result,
\* location or notes value of a baseline record is still on a record of
\* that game in the baseline the run saves.
C6_FetchOnlyAddsInformation ==
  \A p \in Procs :
    LET l == loc[p] IN
    JustSaved(l) =>
      \A i \in 1..Len(l.loaded), f \in Values :
        l.loaded[i][f] # "" =>
          \E j \in 1..Len(baseline) :
            Key(baseline[j]) = Key(l.loaded[i]) /\ baseline[j][f] = l.loaded[i][f]

\* a baseline record the merge carries over: a regular record matched by a
\* fetched record, or a record of one of the three tournament phases
Carried(l, i) ==
  \/ \E k \in 1..Len(l.espn_games) : MatchOf(l, l.espn_games[k]) = i
  \/ l.loaded[i].phase \in {"big_ten_tournament", "ncaa_tournament", "placeholder"}

FetchedValue(l, i, f) ==
  IF \E k \in 1..Len(l.espn_games) : MatchOf(l, l.espn_games[k]) = i
  THEN (CHOOSE eg \in {l.espn_games[k] : k \in 1..Len(l.espn_games)} :
          MatchOf(l, eg) = i)[f]
  ELSE ""

\* C6 amended: after a fetch failure the saved baseline holds every baseline
\* record in place with its tv, result, location and notes.  After a
\* successful fetch the saved baseline holds exactly the carried baseline
\* records (and new records): a carried record keeps its location and notes
\* and keeps its tv / result unless the fetch supplies a non-empty value,
\* which replaces it; a record that is not carried is dropped.
C6_CarriedRecordsKeepValues ==
  \A p \in Procs :
    LET l == loc[p]
        n == Len(l.loaded)
    IN  JustSaved(l) =>
          /\ l.fetch = "failed" =>
               /\ Len(baseline) = n
               /\ \A i \in 1..n, f \in Values \cup {"date", "opponent"} :
                    baseline[i][f] = l.loaded[i][f]
          /\ l.fetch = "ok" =>
               \A i \in 1..n :
                 LET at == { j \in 1..Len(baseline) : l.games_new[j] = i }
                 IN  /\ Cardinality(at) = IF Carried(l, i) THEN 1 ELSE 0
                     /\ \A j \in at :
                          /\ baseline[j].location = l.loaded[i].location
                          /\ baseline[j].notes = l.loaded[i].notes
                          /\ \A f \in {"tv", "result"} :
                               baseline[j][f] =
                                 IF FetchedValue(l, i, f) # ""
                                 THEN FetchedValue(l, i, f) ELSE l.loaded[i][f]

\* a saved baseline that kept one record with its values, replaced a known
\* result by the fetched one, and dropped a record that had a tv value
C6_Witness ==
  \E p \in Procs :
    LET l == loc[p] IN
    /\ JustSaved(l) /\ l.fetch = "ok" /\ Len(l.loaded) = 2
    /\ \E i \in 1..2 :
         /\ Carried(l, i) /\ l.loaded[i].tv = "FOX"
         /\ l.loaded[i].result = "W 70-60"
         /\ \E j \in 1..Len(baseline) :
              /\ l.games_new[j] = i
              /\ baseline[j].tv = "FOX" /\ baseline[j].result = "L 55-60"
    /\ \E i \in 1..2 : ~Carried(l, i) /\ l.loaded[i].tv # ""


Occurrences(l, i) == { k \in 1..Len(l.games_new) : l.games_new[k] = i }

Critical(p) ==
  \/ p \in Refreshers /\ loc[p].pc \in {"loaded", "merged", "tagged", "diffed",
                                          "saved", "syncing"}
  \/ p \in Updaters /\ loc[p].pc \in {"loaded", "merged", "tagged", "diffed"}

\* C9: at most one run at a time, of either baseline-writing driver, is
\* between its baseline load and the end of its baseline write and sync.
C9_MutualExclusion ==
  \A p, q \in Procs : (Critical(p) /\ Critical(q)) => p = q

\* C10: a run whose lock acquisition timed out has ended without writing the
\* baseline, without any calendar call and without writing a run log, and
\* it does not hold the lock.
C10_ContentionNoSideEffects ==
  \A p \in Refreshers :
    LET l == loc[p] IN
    l.timed_out =>
      /\ l.pc = "aborted"
      /\ l.wrote = 0 /\ l.calls = << >> /\ l.logged = 0
      /\ l.loaded = << >> /\ l.heap = << >>
      /\ lock # l.run

\* a run gave up while another run, still working, held the lock
C10_Witness ==
  \E p, q \in Refreshers :
    /\ loc[p].timed_out /\ loc[p].pc = "aborted"
    /\ lock = loc[q].run /\ loc[q].pc = "syncing" /\ loc[q].wrote = 1


\* C11: the run writes the baseline after merge and diff and before its
\* first calendar call: once a calendar call was attempted, the document on
\* disk is the run's candidate list; when the sync phase is over, also by a
\* failed session setup or a failed insert/patch, that document holds the
\* merged records, each carrying its phase and the stable_id of its
\* (date, opponent, phase).
C11_PersistBeforeSync ==
  \A p \in Refreshers :
    LET l == loc[p] IN
    /\ l.wrote = 1 => l.pc \in {"saved", "syncing", "synced", "logged"}
    /\ l.calls # << >> =>
         /\ l.wrote = 1 /\ ~torn
         /\ baseline = Deref(l.heap, l.games_new)
    /\ l.pc = "synced" =>
         /\ \A j \in 1..Len(baseline) :
              /\ baseline[j].phase \notin {Absent, ""}
              /\ baseline[j].stable_id =
                   stable_id(baseline[j].date, baseline[j].opponent, baseline[j].phase)
         /\ l.fetch = "ok" =>
              \A k \in 1..Len(l.espn_games) :
                /\ Key(baseline[k]) = Key(l.espn_games[k])
                /\ l.espn_games[k].tv # "" => baseline[k].tv = l.espn_games[k].tv
                /\ l.espn_games[k].result # "" =>
                     baseline[k].result = l.espn_games[k].result

\* the calendar session could not be set up, and the baseline on disk is
\* already the merged one, different from the one the run loaded
C11_Witness ==
  \E p \in Refreshers :
    LET l == loc[p] IN
    /\ l.pc = "synced" /\ l.errors = 1 /\ Len(l.calls) = 1 /\ ~l.calls[1].ok
    /\ l.fetch = "ok" /\ l.wrote = 1
    /\ baseline # l.loaded /\ Len(baseline) = 2


FailedCalls(l) == { c \in 1..Len(l.calls) : ~l.calls[c].ok }

\* C12 as claimed: when the source fetch fails, the run completes with
\* status "error", the summary holds a warning, and the baseline on disk is
\* the one the run loaded.
C12_FetchFailureScenario ==
  \A p \in Refreshers :
    LET l == loc[p] IN
    (l.pc = "logged" /\ l.fetch = "failed") =>
      /\ l.summary.status = "error"
      /\ l.summary.warnings >= 1
      /\ baseline = l.loaded

\* C12 amended: when the source fetch fails in the refresh driver, the run
\* completes with a warning in its summary and with status "error" exactly
\* when a calendar call failed, "ok" otherwise; the sync phase is attempted;
\* the baseline on disk holds the loaded records in their order, each with
\* its phase defaulted to "regular" and its stable_id recomputed and no
\* other field changed.  In update_schedule.py the failed fetch ends the
\* process without a write to the baseline, the calendar or the run log.
C12_FetchFailureRun ==
  /\ [](\A p \in Refreshers :
          LET l == loc[p] IN
          (l.pc = "logged" /\ l.fetch = "failed") =>
            /\ l.summary.status = (IF FailedCalls(l) # {} THEN "error" ELSE "ok")
            /\ l.summary.warnings >= 1
            /\ l.calls # << >>
            /\ Len(baseline) = Len(l.loaded)
            /\ \A i \in 1..Len(baseline) :
                 baseline[i] =
                   [l.loaded[i] EXCEPT
                      !.phase = PhaseOr(l.loaded[i]),
                      !.stable_id = stable_id(l.loaded[i].date, l.loaded[i].opponent,
                                              PhaseOr(l.loaded[i]))])
  /\ [][\A p \in Updaters :
          (loc[p].pc = "loaded" /\ loc'[p].pc = "exited") =>
            /\ baseline' = baseline /\ torn' = torn
            /\ store' = store /\ logs' = logs]_vars

\* after a failed fetch the run ended with status "ok", having inserted an
\* event, and the baseline on disk differs from the one it loaded
C12_Witness ==
  \E p \in Refreshers :
    LET l == loc[p] IN
    /\ l.pc = "logged" /\ l.fetch = "failed"
    /\ l.summary.status = "ok" /\ l.summary.warnings = 1
    /\ l.summary.created >= 1
    /\ baseline # l.loaded

\* C13: the status of a run summary is "error" exactly when its error count
\* is greater than 0, and "ok" otherwise; the error count is the number of
\* failed calendar calls, so the warning of a failed fetch alone leaves the
\* status "ok".
C13_StatusIffErrors ==
  \A p \in Refreshers :
    LET l == loc[p] IN
    l.pc = "logged" =>
      /\ l.summary.status \in {"ok", "error"}
      /\ l.summary.status = "error" <=> l.summary.errors > 0
      /\ l.summary.errors = Cardinality(FailedCalls(l))
      /\ (l.fetch = "failed" /\ FailedCalls(l) = {}) =>
           (l.summary.status = "ok" /\ l.summary.warnings = 1)

\* a run with a fetch warning and no error reports "ok"
C13_Witness ==
  \E p \in Refreshers :
    LET l == loc[p] IN
    /\ l.pc = "logged" /\ l.fetch = "failed" /\ l.warnings = 1
    /\ l.summary.errors = 0 /\ l.summary.status = "ok"

\* C14: each candidate the sync loop handles gets one call, decided by the
\* tag-to-event map built from the listed window: if its stable_id is a key
\* of the map the call is a patch of the mapped event, which then carries
\* that stable_id as its tag, no event is added and no other event changes;
\* otherwise the call is an insert that appends one event tagged with the
\* stable_id and changes no other event.
C14_CreateOrUpdate ==
  [][\A p \in Refreshers :
       (loc[p].pc = "syncing" /\ Len(loc'[p].calls) = Len(loc[p].calls) + 1) =>
         LET l    == loc[p]
             sid  == l.heap[Head(l.todo)].stable_id
             call == loc'[p].calls[Len(loc'[p].calls)]
             known == sid \in DOMAIN l.existing_by_stable
         IN  /\ call.sid = sid
             /\ call.op = (IF known THEN "patch" ELSE "insert")
             /\ ~call.ok => store' = store
             /\ call.ok =>
                  /\ loc'[p].todo = Tail(l.todo)
                  /\ loc'[p].updated = l.updated + (IF known THEN 1 ELSE 0)
                  /\ loc'[p].created = l.created + (IF known THEN 0 ELSE 1)
                  /\ known =>
                       /\ Len(store') = Len(store)
                       /\ store'[l.existing_by_stable[sid]].tag = sid
                       /\ \A i \in 1..Len(store) :
                            i # l.existing_by_stable[sid] => store'[i] = store[i]
                  /\ ~known =>
                       /\ Len(store') = Len(store) + 1
                       /\ store'[Len(store')].tag = sid
                       /\ \A i \in 1..Len(store) : store'[i] = store[i]
    ]_vars

\* one run patched the event of a known candidate and inserted an event for
\* a new one
C14_Witness ==
  \E p \in Refreshers :
    LET l == loc[p] IN
    /\ l.pc = "synced" /\ l.errors = 0 /\ l.created = 1 /\ l.updated = 1
    /\ \E c, d \in 2..Len(l.calls) :
         /\ l.calls[c].op = "patch" /\ l.calls[d].op = "insert"
         /\ l.calls[c].sid # l.calls[d].sid
         /\ \E i \in 1..Len(store) : store[i].tag = l.calls[c].sid
         /\ store[Len(store)].tag = l.calls[d].sid


\* the characters slug can return
SlugChars == {"a", "1", "-"}

\* C15: slug applied to its own result returns it unchanged, and stable_id
\* returns the same id for the same arguments and for arguments whose
\* opponent and phase differ only in letter case, in surrounding whitespace
\* or in the length of their runs of non-alphanumeric characters.
C15_SlugFixedPoint ==
  /\ (fn.op = "slug" /\ fn.calls = 2) =>
       /\ fn.second = fn.first
       /\ CharsOf(fn.first) \subseteq SlugChars
       /\ fn.first # << >> =>
            (fn.first[1] # "-" /\ fn.first[Len(fn.first)] # "-")
  /\ (fn.op = "stable_id" /\ fn.calls = 2) => fn.b = fn.a

\* "  A-1" padded with whitespace gets the id of "A-1"
C15_Witness ==
  /\ fn.op = "stable_id" /\ fn.calls = 2 /\ fn.kind = "pad"
  /\ fn.opponent = <<"A", "-", "1">> /\ fn.date = 1
  /\ fn.phase = Chars("regular")
  /\ fn.b = fn.a
  /\ fn.a = <<"0", "1", "-", "a", "-", "1", "-">> \o Chars("regular")

WinTexts  == {"W 70-60", "W 80-75"}
LossTexts == {"L 55-60"}
Upto(games, d) == { i \in 1..Len(games) : games[i].date <= d }

\* C16: for games in ascending date order and a cutoff d, calculate_record
\* returns the number of games dated d or earlier whose result starts with
\* "W" and the number whose result starts with "L"; other results count
\* for neither; the sentinel cutoff counts every game; the results "W 70-60",
\* "L 55-60", "W 80-75" on ascending dates give (1,0), (1,1), (2,1).
C16_RecordArithmetic ==
  (fn.op = "calculate_record" /\ fn.calls = 1) =>
    LET games == fn.games
        d     == fn.up_to_date
        in    == Upto(games, d)
    IN  /\ fn.out = << Cardinality({ i \in in : games[i].result \in WinTexts }),
                      Cardinality({ i \in in : games[i].result \in LossTexts }) >>
        /\ d = 9999 => in = 1..Len(games)
        /\ ( /\ Len(games) = 3
             /\ [i \in 1..3 |-> games[i].result] = <<"W 70-60", "L 55-60", "W 80-75">>
             /\ [i \in 1..3 |-> games[i].date] = <<1, 2, 3>> )
           => fn.out = (CASE d = 1 -> <<1, 0>> [] d = 2 -> <<1, 1>> [] OTHER -> <<2, 1>>)

\* the trailing record after the second of the three games is (1,1)
C16_Witness ==
  /\ fn.op = "calculate_record" /\ fn.calls = 1
  /\ fn.games = << [date |-> 1, result |-> "W 70-60"],
                   [date |-> 2, result |-> "L 55-60"],
                   [date |-> 3, result |-> "W 80-75"] >>
  /\ fn.up_to_date = 2
  /\ fn.out = <<1, 1>>


\* C17: at every point of a run, a failure in the middle of the save step
\* included, data/schedule.json holds a complete document, the old one or
\* the new one, never an empty or partly written one.
C17_AtomicReplace == ~torn

\* C18: after a successful fetch the merger's output starts with one record
\* per fetched record, in fetch order, with the fetched (date, opponent) and
\* a regular phase: the matched baseline record, or else a new record with
\* phase "regular", empty location and notes and the fetched tv and result;
\* a regular baseline record whose (date, opponent) is not fetched is not in
\* the output; the records after these are the baseline's tournament and
\* placeholder records.
C18_SourceAuthoritative ==
  \A p \in Procs :
    LET l == loc[p]
        n == Len(l.loaded)
        m == Len(l.espn_games)
    IN  (l.pc = "merged" /\ l.fetch = "ok") =>
          /\ Len(l.games_new) >= m
          /\ \A k \in 1..m :
               LET g  == l.heap[l.games_new[k]]
                   eg == l.espn_games[k]
               IN  /\ Key(g) = Key(eg)
                   /\ g.phase \in {Absent, "regular"}
                   /\ \A k2 \in 1..m : l.games_new[k2] = l.games_new[k] => k2 = k
                   /\ MatchOf(l, eg) # 0 => l.games_new[k] = MatchOf(l, eg)
                   /\ MatchOf(l, eg) = 0 =>
                        /\ l.games_new[k] > n
                        /\ g = Game(eg.date, eg.opponent, "", "regular", eg.tv,
                                    eg.result, "", NoId)
          /\ \A k \in (m + 1)..Len(l.games_new) :
               /\ l.games_new[k] <= n
               /\ l.heap[l.games_new[k]].phase \in
                    {"big_ten_tournament", "ncaa_tournament", "placeholder"}
          /\ \A i \in 1..n :
               ( /\ l.loaded[i].phase \in {Absent, "regular"}
                 /\ \A k \in 1..m : Key(l.espn_games[k]) # Key(l.loaded[i]) )
               => Occurrences(l, i) = {}

\* a regular baseline record is dropped, a fetched game is new, and the
\* tournament record follows it
C18_Witness ==
  \E p \in Procs :
    LET l == loc[p] IN
    /\ l.pc = "merged" /\ l.fetch = "ok"
    /\ Len(l.loaded) = 2 /\ Len(l.espn_games) = 1 /\ Len(l.games_new) = 2
    /\ l.loaded[1].phase = "regular" /\ Occurrences(l, 1) = {}
    /\ l.games_new[1] = 3 /\ l.heap[3].phase = "regular"
    /\ l.heap[3].result = "L 55-60" /\ l.heap[3].notes = ""
    /\ l.games_new[2] = 2 /\ l.heap[2].phase = "ncaa_tournament"

\* the record of the loaded baseline that carries the stable_id of g: the
\* last one; 0 if none
OldMatch(l, g) ==
  LET hits == { i \in 1..Len(l.loaded) :
                  l.loaded[i].stable_id # NoId /\ l.loaded[i].stable_id = g.stable_id }
  IN  IF hits = {} THEN 0 ELSE CHOOSE i \in hits : \A j \in hits : j <= i

Blank(v) == IF v = Absent THEN "" ELSE v
TrackedDiffer(old, new) ==
  \/ old.date # new.date
  \/ \E f \in {"opponent", "location", "tv", "result", "phase"} :
       Blank(old[f]) # Blank(new[f])

\* C19: every new record whose stable_id is in the old baseline gives one
\* change entry when a tracked field differs from the old record, and one
\* increment of the unchanged count when none does; a new record whose
\* stable_id is not in the old baseline gives neither.
C19_DiffPartition ==
  \A p \in Refreshers :
    LET l == loc[p] IN
    l.pc = "diffed" =>
      LET new(k)    == l.heap[l.games_new[k]]
          matched   == { k \in 1..Len(l.games_new) : OldMatch(l, new(k)) # 0 }
          differing == { k \in matched :
                           TrackedDiffer(l.loaded[OldMatch(l, new(k))], new(k)) }
      IN  /\ Len(l.changed) = Cardinality(differing)
          /\ l.unchanged = Cardinality(matched \ differing)
          /\ \A c \in 1..Len(l.changed) :
               \E k \in differing : l.changed[c].stable_id = new(k).stable_id

\* C20: after a failed fetch in the refresh driver nothing was merged, the
\* candidate list is the loaded baseline list itself, one warning was
\* recorded for it, and the run goes on through stable ids and diff to the
\* save of that list and to the sync phase, which without a calendar error
\* issues a call for every baseline record.
C20_FetchFailureNonFatal ==
  \A p \in Refreshers :
    LET l == loc[p] IN
    l.fetch = "failed" =>
      /\ l.pc \in {"merged", "tagged", "diffed", "saved", "syncing", "synced", "logged"}
      /\ l.espn_games = << >>
      /\ l.games_new = [i \in 1..Len(l.loaded) |-> i]
      /\ Len(l.heap) = Len(l.loaded)
      /\ l.pc = "merged" => l.heap = l.loaded
      /\ l.warnings = 1 + l.errors
      /\ l.errors = Cardinality(FailedCalls(l))
      /\ l.pc \in {"merged", "tagged", "diffed"} => (l.wrote = 0 /\ l.calls = << >>)
      /\ l.pc \in {"saved", "syncing", "synced", "logged"} =>
           (l.wrote = 1 /\ baseline = Deref(l.heap, l.games_new))
      /\ l.pc \in {"syncing", "synced", "logged"} => l.calls # << >>
      /\ (l.pc \in {"synced", "logged"} /\ l.errors = 0) =>
           Len(l.calls) = 1 + Len(l.loaded)

\* a run whose fetch failed saved the two baseline records and sent both to
\* the calendar
C20_Witness ==
  \E p \in Refreshers :
    LET l == loc[p] IN
    /\ l.fetch = "failed" /\ l.pc = "synced" /\ l.warnings = 1
    /\ Len(l.loaded) = 2 /\ l.wrote = 1 /\ Len(baseline) = 2
    /\ Len(l.calls) = 3 /\ l.created + l.updated = 2


CandidateIds(l) == { l.heap[l.games_new[k]].stable_id : k \in 1..Len(l.games_new) }

\* C21: no step removes an event from the calendar, and an event changes
\* only in a step of the sync loop, when it carries a stable_id tag, that
\* tag is the stable_id of the candidate being synced, and the changed
\* event still carries it: an event without a tag, or with a tag that is
\* no candidate's stable_id, is never changed.
C21_OnlyOwnEvents ==
  [][ /\ Len(store') >= Len(store)
      /\ \A i \in 1..Len(store) :
           store'[i] # store[i] =>
             \E p \in Refreshers :
               /\ loc[p].pc = "syncing"
               /\ store[i].tag # NoId
               /\ store[i].tag = loc[p].heap[Head(loc[p].todo)].stable_id
               /\ store[i].tag \in CandidateIds(loc[p])
               /\ store'[i].tag = store[i].tag
    ]_vars

\* a run patched the event of one of its candidates while the calendar
\* holds the hand-made event and a tagged event of a game that is no longer
\* a candidate, both as they were
C21_Witness ==
  \E p \in Refreshers :
    LET l == loc[p] IN
    /\ l.pc = "synced" /\ l.updated >= 1 /\ l.errors = 0
    /\ store[1] = ForeignEvent
    /\ \E i \in 2..Len(store) :
         /\ store[i].tag # NoId
         /\ store[i].tag \notin CandidateIds(l)
         /\ store[i].body.summary.opponent = "IU"
         /\ store[i].body.location = "Mackey"


\* C22: when a run has saved the baseline, after a merge or after a failed
\* fetch, every record of the document on disk has a non-empty phase and
\* the stable_id of its own (date, opponent, phase); and every stable_id the
\* run's sync phase has looked up is the stable_id of the record of that
\* document it was syncing.
C22_PersistedIdentity ==
  \A p \in Procs :
    LET l == loc[p] IN
    /\ JustSaved(l) =>
         /\ Len(baseline) = Len(l.games_new)
         /\ \A j \in 1..Len(baseline) :
              /\ baseline[j].phase \notin {Absent, ""}
              /\ baseline[j].stable_id # NoId
              /\ baseline[j].stable_id =
                   stable_id(baseline[j].date, baseline[j].opponent, baseline[j].phase)
    /\ (p \in Refreshers /\ l.pc = "synced") =>
         \A c \in 2..Len(l.calls) :
           LET r == SortByDate(l.heap, l.games_new)[c - 1]
           IN  \E j \in 1..Len(baseline) :
                 /\ l.games_new[j] = r
                 /\ baseline[j] = l.heap[r]
                 /\ l.calls[c].sid = baseline[j].stable_id

\* after a failed fetch a hand-written baseline, with a record that had no
\* phase and no id, was saved with phases and ids
C22_Witness ==
  \E p \in Refreshers :
    LET l == loc[p] IN
    /\ JustSaved(l) /\ l.fetch = "failed" /\ Len(l.loaded) = 2
    /\ \E i \in 1..2 : l.loaded[i].stable_id = NoId /\ l.loaded[i].phase = Absent
    /\ \A j \in 1..2 : baseline[j].stable_id # NoId /\ baseline[j].phase # Absent


\* C23: for the same date, opponent and phase the stable_id of
\* update_schedule.py equals the stable_id of purdue_refresh_from_web.py,
\* and for the same old baseline and the same fetched list the two drivers
\* compute the same new record list, with the same stable_id on every
\* record, and the same changes.
C23_DriversAgree ==
  /\ (fn.op = "both_ids" /\ fn.calls = 1) => fn.b = fn.a
  /\ (fn.op = "drivers" /\ fn.calls = 1) =>
       /\ fn.update = fn.refresh
       /\ fn.uchanged = fn.rchanged
       /\ Len(fn.refresh) >= Len(fn.espn_games)
       /\ \A j \in 1..Len(fn.refresh) : fn.refresh[j].stable_id # NoId

\* an opponent written with a leading space and a trailing tab gets the
\* same id from both drivers, although only one of them normalises
\* whitespace first
C23_Witness ==
  /\ fn.op = "both_ids" /\ fn.calls = 1
  /\ fn.opponent = <<" ", "A", "\t">> /\ fn.date = 1
  /\ fn.phase = Chars("regular")
  /\ fn.b = fn.a
  /\ fn.a = <<"0", "1", "-", "a", "-">> \o Chars("regular")

====
